---- MODULE Spec2Model ----
(***************************************************************************)
(* Model of src/infrastructure/lib/apollo/withApollo.jsx: the withApollo   *)
(* higher-order component, its getInitialProps prefetch hook, the client   *)
(* factory initApolloClient/createApolloClient and the error link.         *)
(*                                                                         *)
(* JavaScript values: an absent/null/undefined object is the empty tuple   *)
(* None and a present one is the one-element tuple Some(v); a null client  *)
(* reference is 0 (client ids start at 1); an undefined string is          *)
(* Undefined.  Strings that the code inspects are sequences of characters. *)
(***************************************************************************)
EXTENDS Naturals, Sequences, FiniteSets, TLC

\* Bounds of the model.
NumReq == 2
NumQueries == 2
MaxErrs == 2

Req == 1..NumReq
Queries == 1..NumQueries

None == <<>>
Some(v) == <<v>>
Undefined == "undefined"
NoClient == 0

Cookies == {"sid=a"}
HookData == {"d1"}

VARIABLES
  env,          \* "server" when typeof window === "undefined", else "browser"
  ssr,          \* the ssr option of withApollo
  hasHook,      \* whether PageComponent.getInitialProps is declared
  kind,         \* shape of ctx: "page" (ctx.req, ctx.res) or "app" (ctx.ctx.req, ctx.ctx.res)
  apolloClient, \* the module-level singleton (line 12)
  clients,      \* every ApolloClient constructed so far, by id
  rq,           \* per request / navigation: position in getInitialProps and render
  toasts,       \* ToastMessage calls made by the last run of the error link
  call          \* the arguments of the last run of the error link

vars == <<env, ssr, hasHook, kind, apolloClient, clients, rq, toasts, call>>

lifecycleVars == <<env, ssr, hasHook, kind, apolloClient, clients, rq>>
linkVars == <<toasts, call>>

(***************************************************************************)
(* The error link (lines 134-152).                                         *)
(***************************************************************************)
Needle == <<"V","a","r","i","a","b","l","e"," ","\"","$">>
GenericMessage == <<"E","r","r","o","r"," ","p","r","o","c","e","s","s","i","n","g"," ","r","e","q","u","e","s","t"," ","p","l","e","a","s","e"," ","t","r","y"," ","a","g","a","i","n">>
NetworkMessage == <<"N","e","t","w","o","r","k"," ","e","r","r","o","r">>

MsgMissingVar == <<"V","a","r","i","a","b","l","e"," ","\"","$","i","d","\""," ","o","f"," ","r","e","q","u","i","r","e","d"," ","t","y","p","e"," ","\"","I","D","!","\""," ","w","a","s"," ","n","o","t"," ","p","r","o","v","i","d","e","d",".">>
MsgTail == <<"B","a","d"," ","i","n","p","u","t",":"," ","V","a","r","i","a","b","l","e"," ","\"","$">>
MsgLower == <<"v","a","r","i","a","b","l","e"," ","\"","$","i","d","\""," ","i","s"," ","w","r","o","n","g">>
MsgNoQuote == <<"V","a","r","i","a","b","l","e"," ","$","i","d"," ","i","s"," ","w","r","o","n","g">>
MsgPlain == <<"E","m","a","i","l"," ","a","l","r","e","a","d","y"," ","t","a","k","e","n">>

\* Server messages the error link is run on.
Messages == {MsgMissingVar, MsgTail, MsgLower, MsgNoQuote, MsgPlain, <<>>}

Operations == {"query", "mutation", "subscription"}

RECURSIVE SeqsUpTo(_, _)
SeqsUpTo(S, n) ==
  IF n = 0 THEN {<<>>}
  ELSE LET shorter == SeqsUpTo(S, n - 1)
       IN  shorter \cup {Append(s, x) : s \in shorter, x \in S}

ErrorLists == SeqsUpTo(Messages, MaxErrs)

\* String.prototype.includes
includes(message, needle) ==
  \E i \in 1..(Len(message) + 1) :
     /\ i + Len(needle) - 1 <= Len(message)
     /\ SubSeq(message, i, i + Len(needle) - 1) = needle

ToastMessage(type, message) == [type |-> type, message |-> message]

ToastTextRaw(message) == message

\* lines 142-144: the message handed to ToastMessage for one GraphQL error
ToastText(message) ==
  IF includes(message, Needle) THEN GenericMessage ELSE message

\* lines 134-152; graphQLErrors is None when undefined, Some(list) when an
\* array (an empty array is truthy), networkError is whether one is present.
onError(graphQLErrors, networkError, operation) ==
  IF graphQLErrors # None /\ operation = "mutation"
  THEN [i \in 1..Len(graphQLErrors[1]) |->
          ToastMessage("ERROR", ToastText(graphQLErrors[1][i]))]
  ELSE IF operation = "mutation"
       THEN <<ToastMessage("ERROR", NetworkMessage)>>
       ELSE <<>>

\* One run of the error link.  The link library runs the handler only for a
\* failed operation: a response with an errors array, or a transport failure.
OnError(graphQLErrors, networkError, operation) ==
  /\ graphQLErrors # None \/ networkError
  /\ toasts' = onError(graphQLErrors, networkError, operation)
  /\ call' = Some([graphQLErrors |-> graphQLErrors,
                   networkError |-> networkError,
                   operation |-> operation])
  /\ UNCHANGED lifecycleVars

(***************************************************************************)
(* The client factory (lines 110-163).                                     *)
(***************************************************************************)
\* typeof window === "undefined"
IsServer == env = "server"

\* new InMemoryCache().restore(initialState): an undefined initialState is
\* defaulted to {} (line 130) and restore(null) restores nothing.
Restore(initialState) == IF initialState = None THEN {} ELSE initialState[1]

\* headers && headers.cookie (line 158)
HeaderCookie(headers) == IF headers = None THEN Undefined ELSE headers[1].cookie

\* lines 130-163: the client's cache and the headers of its HttpLink
createApolloClient(initialState, headers) ==
  [seed    |-> Restore(initialState),
   cache   |-> Restore(initialState),
   headers |-> [cookie |-> HeaderCookie(headers)]]

\* the clients after `new ApolloClient` has allocated the object id
Constructed(id, client) == (id :> client) @@ clients

\* initApolloClient with the server branch (lines 113-115) removed
initApolloClientShared(initialState, header, id) ==
  IF apolloClient = NoClient
  THEN [id |-> id, singleton |-> id,
        clients |-> Constructed(id, createApolloClient(initialState, None))]
  ELSE [id |-> apolloClient, singleton |-> apolloClient, clients |-> clients]

\* initApolloClient handing out an earlier client again on the server
initApolloClientReuseLast(initialState, header, id) ==
  IF IsServer /\ DOMAIN clients # {}
  THEN [id |-> CHOOSE c \in DOMAIN clients : TRUE,
        singleton |-> apolloClient, clients |-> clients]
  ELSE IF IsServer \/ apolloClient = NoClient
       THEN [id |-> id, singleton |-> IF IsServer THEN apolloClient ELSE id,
             clients |-> Constructed(id, createApolloClient(initialState, header))]
       ELSE [id |-> apolloClient, singleton |-> apolloClient, clients |-> clients]

\* initApolloClient with the reuse test of line 118 removed
initApolloClientAlwaysNew(initialState, header, id) ==
  IF IsServer
  THEN [id |-> id, singleton |-> apolloClient,
        clients |-> Constructed(id, createApolloClient(initialState, header))]
  ELSE [id |-> id, singleton |-> id,
        clients |-> Constructed(id, createApolloClient(initialState, None))]

\* lines 110-123: the client returned, the singleton and the clients after;
\* id is the identity of the object a construction would allocate
initApolloClient(initialState, header, id) ==
  IF IsServer
  THEN [id |-> id, singleton |-> apolloClient,
        clients |-> Constructed(id, createApolloClient(initialState, header))]
  ELSE IF apolloClient = NoClient
       THEN [id |-> id, singleton |-> id,
             clients |-> Constructed(id, createApolloClient(initialState, None))]
       ELSE [id |-> apolloClient, singleton |-> apolloClient, clients |-> clients]

\* identities of the objects request r may allocate: one in its hook, one
\* in its render
HookClientId(r) == 2 * r - 1
RenderClientId(r) == 2 * r

\* the queries of a page run in the order of the tree: the first one not in S
NextQuery(q, S) == q \notin S /\ \A p \in Queries : p < q => p \in S

(***************************************************************************)
(* The page wrapper (lines 22-102).                                        *)
(***************************************************************************)
\* Inbound request headers of a server request: the session cookie and
\* another header.
InboundHeaders == {[cookie |-> c, agent |-> "ua"] : c \in Cookies}

\* pageProps: {} or the object returned by PageComponent.getInitialProps;
\* the apolloState key is absent (None) until line 94 adds it.
BaseProps(data) == [data |-> data, apolloState |-> None]

\* { ...pageProps, apolloState } (lines 94-97)
MergeProps(pageProps, apolloState) ==
  [pageProps EXCEPT !.apolloState = Some(apolloState)]

\* ctx && ctx.ctx && ctx.ctx.req && ctx.ctx.req.headers (line 53): the page
\* context carries the request as ctx.req, the app context as ctx.ctx.req.
CtxCtxReqHeaders(k, inbound) == IF k = "app" THEN inbound ELSE None

CtxResFinishedNever(k, finished) == FALSE

\* ctx.res && ctx.res.finished (line 66): only the page context has ctx.res.
CtxResFinished(k, finished) == k = "page" /\ finished

CtxApolloClientUnset(id) == NoClient

\* ctx.apolloClient = initApolloClient(...) (line 51)
CtxApolloClient(id) == id

ExtractSeed(client) == client.seed

\* apolloClient.cache.extract() (line 92)
Extract(client) == client.cache

WithApolloClientIgnoringProp(propClient, apolloState, id) ==
  initApolloClient(apolloState, None, id)

\* apolloClient || initApolloClient(apolloState) (line 24)
WithApolloClient(propClient, apolloState, id) ==
  IF propClient # NoClient
  THEN [id |-> propClient, singleton |-> apolloClient, clients |-> clients]
  ELSE initApolloClient(apolloState, None, id)

InitRq ==
  [pc |-> "idle", inbound |-> None, finished |-> FALSE,
   client |-> NoClient, fresh |-> FALSE, pageProps |-> BaseProps(Undefined),
   issued |-> {}, resolved |-> {}, failedQuery |-> {},
   tree |-> FALSE, threw |-> FALSE, logged |-> FALSE, rewinds |-> 0,
   result |-> None,
   used |-> NoClient, usedProp |-> NoClient, usedState |-> None,
   usedCreated |-> FALSE, usedBefore |-> NoClient]

\* lines 91-97: extract the cache and return the merged props
Return(rec, cl) ==
  [rec EXCEPT !.pc = "returned",
              !.result = Some(MergeProps(rec.pageProps, Extract(cl[rec.client])))]

\* lines 62-98, entered when the wrapped hook has returned (or is absent)
AfterHook(rec, cl) ==
  IF IsServer /\ CtxResFinished(kind, rec.finished)
  THEN [rec EXCEPT !.pc = "returned", !.result = Some(rec.pageProps)]
  ELSE IF IsServer /\ ssr
       THEN [rec EXCEPT !.pc = "import"]
       ELSE Return(rec, cl)

CatchRethrows(rec) == [rec EXCEPT !.threw = TRUE, !.pc = "failed"]

\* lines 78-83: the catch clause logs the error and swallows it
Catch(rec) == [rec EXCEPT !.threw = TRUE, !.logged = TRUE]

\* lines 85-97 after the try statement; an exception that left the try
\* statement rejects the hook instead
AfterTry(rec, cl) ==
  IF rec.pc = "failed" THEN rec
  ELSE Return([rec EXCEPT !.rewinds = @ + 1], cl)

\* lines 47-60 (and on to line 98 when the page declares no hook)
GetInitialProps(r, inbound, fin) ==
  /\ rq[r].pc = "idle"
  /\ ssr \/ hasHook
  /\ LET made == initApolloClient(None, CtxCtxReqHeaders(kind, inbound),
                                  HookClientId(r))
         rec  == [rq[r] EXCEPT !.inbound = inbound, !.finished = fin,
                               !.client = CtxApolloClient(made.id),
                               !.fresh = made.id \notin DOMAIN clients]
     IN  /\ clients' = made.clients
         /\ apolloClient' = made.singleton
         /\ rq' = [rq EXCEPT ![r] = IF hasHook THEN [rec EXCEPT !.pc = "hook"]
                                    ELSE AfterHook(rec, made.clients)]
  /\ UNCHANGED <<env, ssr, hasHook, kind, linkVars>>

\* PageComponent.getInitialProps(ctx) runs a query through ctx.apolloClient
HookQuery(r, q) ==
  /\ rq[r].pc = "hook"
  /\ rq[r].client # NoClient
  /\ NextQuery(q, rq[r].issued)
  /\ clients' = [clients EXCEPT ![rq[r].client].cache = @ \cup {q}]
  /\ rq' = [rq EXCEPT ![r].issued = @ \cup {q}, ![r].resolved = @ \cup {q}]
  /\ UNCHANGED <<env, ssr, hasHook, kind, apolloClient, linkVars>>

\* PageComponent.getInitialProps(ctx) redirects: the response is finished
HookRedirect(r) ==
  /\ rq[r].pc = "hook"
  /\ IsServer
  /\ ~rq[r].finished
  /\ rq' = [rq EXCEPT ![r].finished = TRUE]
  /\ UNCHANGED <<env, ssr, hasHook, kind, apolloClient, clients, linkVars>>

\* line 59 resumes with the hook's result, then lines 62-98
HookReturn(r, d) ==
  /\ rq[r].pc = "hook"
  /\ rq' = [rq EXCEPT ![r] =
              AfterHook([rq[r] EXCEPT !.pageProps = BaseProps(d)], clients)]
  /\ UNCHANGED <<env, ssr, hasHook, kind, apolloClient, clients, linkVars>>

\* lines 74-77: the import resolves and getDataFromTree renders
\* <AppTree pageProps={{...pageProps, apolloClient}} />, so WithApollo
\* (lines 23-24) renders with the apolloClient prop
TreeRender(r) ==
  /\ rq[r].pc = "import"
  /\ LET got == WithApolloClient(rq[r].client, rq[r].pageProps.apolloState,
                                 RenderClientId(r))
     IN  /\ clients' = got.clients
         /\ apolloClient' = got.singleton
         /\ rq' = [rq EXCEPT ![r].pc = "tree", ![r].tree = TRUE,
                             ![r].used = got.id,
                             ![r].usedProp = rq[r].client,
                             ![r].usedState = rq[r].pageProps.apolloState,
                             ![r].usedCreated = got.id \notin DOMAIN clients,
                             ![r].usedBefore = apolloClient]
  /\ UNCHANGED <<env, ssr, hasHook, kind, linkVars>>

\* a query of the tree is issued on the client in use and resolves
TreeQuery(r, q) ==
  /\ rq[r].pc = "tree"
  /\ NextQuery(q, clients[rq[r].used].cache)
  /\ clients' = [clients EXCEPT ![rq[r].used].cache = @ \cup {q}]
  /\ rq' = [rq EXCEPT ![r].issued = @ \cup {q}, ![r].resolved = @ \cup {q}]
  /\ UNCHANGED <<env, ssr, hasHook, kind, apolloClient, linkVars>>

\* a query of the tree is issued and fails: getDataFromTree rejects
\* (lines 78-83), then lines 85-97
TreeFail(r, q) ==
  /\ rq[r].pc = "tree"
  /\ NextQuery(q, clients[rq[r].used].cache)
  /\ rq' = [rq EXCEPT ![r] =
              AfterTry(Catch([rq[r] EXCEPT !.issued = @ \cup {q},
                                           !.failedQuery = @ \cup {q}]),
                       clients)]
  /\ UNCHANGED <<env, ssr, hasHook, kind, apolloClient, clients, linkVars>>

\* getDataFromTree resolves, then lines 85-97
TreeDone(r) ==
  /\ rq[r].pc = "tree"
  /\ rq' = [rq EXCEPT ![r] = AfterTry(rq[r], clients)]
  /\ UNCHANGED <<env, ssr, hasHook, kind, apolloClient, clients, linkVars>>

\* lines 23-32 for one set of props
RenderWith(r, propClient, apolloState) ==
  LET got == WithApolloClient(propClient, apolloState, RenderClientId(r))
  IN  /\ clients' = got.clients
      /\ apolloClient' = got.singleton
      /\ rq' = [rq EXCEPT ![r].pc = "rendered",
                          ![r].used = got.id,
                          ![r].usedProp = propClient,
                          ![r].usedState = apolloState,
                          ![r].usedCreated = got.id \notin DOMAIN clients,
                          ![r].usedBefore = apolloClient]

\* the framework renders WithApollo with the props the hook returned; a
\* finished response is not rendered
Render(r) ==
  /\ rq[r].pc = "returned"
  /\ ~(IsServer /\ rq[r].finished)
  /\ RenderWith(r, NoClient, rq[r].result[1].apolloState)
  /\ UNCHANGED <<env, ssr, hasHook, kind, linkVars>>

\* WithApollo rendered with props its own hook did not produce: the first
\* browser render hydrates with the props of the server (any snapshot), and
\* a wrapper without a hook (line 46) renders the bare page props
RenderWithoutPrefetch(r, apolloState) ==
  /\ rq[r].pc = "idle"
  /\ IF IsServer THEN ~(ssr \/ hasHook) /\ apolloState = None ELSE TRUE
  /\ RenderWith(r, NoClient, apolloState)
  /\ UNCHANGED <<env, ssr, hasHook, kind, linkVars>>

Snapshots == {None} \cup {Some(S) : S \in SUBSET Queries}

Init ==
  /\ env \in {"server", "browser"}
  /\ ssr \in BOOLEAN
  /\ hasHook \in BOOLEAN
  /\ kind \in {"page", "app"}
  /\ apolloClient = NoClient
  /\ clients = [id \in {} |-> id]
  /\ rq = [r \in Req |-> InitRq]
  /\ toasts = <<>>
  /\ call = None

Next ==
  \/ \E r \in Req :
       \/ IF IsServer
          THEN \E h \in InboundHeaders, f \in BOOLEAN : GetInitialProps(r, Some(h), f)
          ELSE GetInitialProps(r, None, FALSE)
       \/ \E q \in Queries : HookQuery(r, q)
       \/ HookRedirect(r)
       \/ \E d \in HookData : HookReturn(r, d)
       \/ TreeRender(r)
       \/ \E q \in Queries : TreeQuery(r, q)
       \/ \E q \in Queries : TreeFail(r, q)
       \/ TreeDone(r)
       \/ Render(r)
       \/ \E s \in Snapshots : RenderWithoutPrefetch(r, s)

Spec == Init /\ [][Next]_vars

\* The error link on its own: every run of the handler on a failed operation.
LinkNext ==
  \E e \in {None} \cup {Some(l) : l \in ErrorLists}, n \in BOOLEAN,
     op \in Operations : OnError(e, n, op)

LinkInit == Init /\ env = "browser" /\ ssr /\ hasHook /\ kind = "page"

LinkSpec == LinkInit /\ [][LinkNext]_vars

(***************************************************************************)
(* Properties.                                                             *)
(***************************************************************************)
\* the clients a request has been handed, by the hook or by a render
Observed(r) == {rq[r].client, rq[r].used} \ {NoClient}

\* the request's getInitialProps has started
Prefetched(r) ==
  \/ rq[r].pc \in {"hook", "import", "tree", "returned", "failed"}
  \/ rq[r].pc = "rendered" /\ rq[r].result # None

\* getInitialProps has returned props
Returned(r) == rq[r].pc \in {"returned", "rendered"} /\ rq[r].result # None

\* C1: on the server every initApolloClient call constructs a new client, no
\* client is observed by two different requests however they interleave,
\* and the module-level singleton is never assigned.
C1_ServerClientPerCall ==
  IsServer =>
    /\ apolloClient = NoClient
    /\ \A r1, r2 \in Req : r1 # r2 => Observed(r1) \cap Observed(r2) = {}
    /\ \A r \in Req :
         /\ rq[r].client # NoClient => rq[r].fresh
         /\ (rq[r].used # NoClient /\ rq[r].usedProp = NoClient) =>
              rq[r].usedCreated /\ rq[r].used # rq[r].client

C1_Witness ==
  /\ IsServer
  /\ \E r1, r2 \in Req :
       /\ r1 # r2
       /\ rq[r1].pc = "tree"
       /\ rq[r2].pc = "rendered" /\ rq[r2].client # NoClient

\* C2: in the browser exactly one client is ever constructed, by the first
\* initApolloClient call, which stores it as the singleton; every other call,
\* from the hook or from a render and whatever its initialState, returns it.
C2_BrowserSingleton ==
  ~IsServer =>
    /\ Cardinality(DOMAIN clients) <= 1
    /\ DOMAIN clients = {apolloClient} \ {NoClient}
    /\ \A r \in Req : Observed(r) \subseteq {apolloClient}
    /\ (\E r \in Req : rq[r].pc # "idle") => Cardinality(DOMAIN clients) = 1
    /\ Cardinality({r \in Req : rq[r].fresh \/ rq[r].usedCreated}) <= 1

C2_Witness ==
  /\ ~IsServer
  /\ \E r1, r2 \in Req :
       /\ rq[r1].pc = "rendered" /\ rq[r1].client # NoClient
       /\ rq[r2].pc = "rendered" /\ rq[r2].client = NoClient
       /\ rq[r2].usedState # rq[r1].usedState
       /\ rq[r1].used = rq[r2].used

\* C3: when ctx.res.finished is true as the hook reaches line 66, the props
\* returned are exactly the wrapped hook's result (the empty props without a
\* hook): no apolloState key, no getDataFromTree, no Head.rewind.
C3_FinishedReturnsBaseProps ==
  \A r \in Req :
    (kind = "page" /\ rq[r].finished /\ Prefetched(r)) =>
      /\ rq[r].pc \in {"hook", "returned"}
      /\ rq[r].pc = "returned" =>
           /\ rq[r].result = Some(rq[r].pageProps)
           /\ rq[r].result[1].apolloState = None
           /\ hasHook => rq[r].result[1].data \in HookData
           /\ ~hasHook => rq[r].result[1].data = Undefined
      /\ ~rq[r].tree
      /\ rq[r].rewinds = 0

C3_Witness ==
  \E r \in Req :
    /\ kind = "page" /\ ssr /\ rq[r].finished
    /\ rq[r].pc = "returned"
    /\ rq[r].resolved # {}

C6_Original ==
  \A r \in Req : Prefetched(r) => rq[r].fresh

\* C6 amended: on the server every invocation of the hook creates a fresh
\* client, distinct from every client of an earlier invocation or render, and
\* attaches it as ctx.apolloClient before the wrapped hook runs; in the
\* browser the hook runs as well and ctx.apolloClient is the session's
\* singleton, fresh only when no client existed yet.
C6_FreshOnServerSingletonInBrowser ==
  \A r \in Req :
    Prefetched(r) =>
      /\ rq[r].client \in DOMAIN clients
      /\ IsServer =>
           /\ rq[r].fresh
           /\ \A r2 \in Req \ {r} : rq[r].client \notin Observed(r2)
           /\ rq[r].usedProp = NoClient => rq[r].used # rq[r].client
      /\ ~IsServer =>
           /\ rq[r].client = apolloClient
           /\ rq[r].fresh => rq[r].client = HookClientId(r)

C6_Witness ==
  \E r1, r2 \in Req :
    /\ r1 # r2
    /\ ~IsServer
    /\ rq[r1].pc = "hook" /\ rq[r1].fresh
    /\ rq[r2].pc = "hook" /\ ~rq[r2].fresh

\* C7: the HTTP link of the client created by a server prefetch carries
\* exactly the cookie of the inbound request, and no other inbound header,
\* whether the request is ctx.req or ctx.ctx.req.
C7_CookieForwarded ==
  \A r \in Req :
    (IsServer /\ Prefetched(r) /\ rq[r].inbound # None) =>
      clients[rq[r].client].headers = [cookie |-> rq[r].inbound[1].cookie]

\* C8 as stated: a render uses the apolloClient prop when present, and
\* otherwise a client whose cache was seeded from the apolloState prop.
C8_Original ==
  \A r \in Req :
    rq[r].used # NoClient =>
      IF rq[r].usedProp # NoClient
      THEN rq[r].used = rq[r].usedProp
      ELSE clients[rq[r].used].seed = Restore(rq[r].usedState)

\* C8 amended: a render uses the apolloClient prop when present; otherwise,
\* on the server, a new client seeded from the apolloState prop, and in the
\* browser the singleton, which was seeded from the apolloState prop only
\* when this render constructed it: an existing singleton is used as it is
\* and the apolloState prop is ignored.
C8_RenderClient ==
  \A r \in Req :
    rq[r].used # NoClient =>
      IF rq[r].usedProp # NoClient
      THEN rq[r].used = rq[r].usedProp
      ELSE IF IsServer \/ rq[r].usedBefore = NoClient
           THEN /\ rq[r].usedCreated
                /\ clients[rq[r].used].seed = Restore(rq[r].usedState)
                /\ ~IsServer => rq[r].used = apolloClient
           ELSE /\ ~rq[r].usedCreated
                /\ rq[r].used = rq[r].usedBefore
                /\ rq[r].used = apolloClient

C8_Witness ==
  \E r \in Req :
    /\ ~IsServer
    /\ rq[r].pc = "rendered"
    /\ rq[r].usedProp = NoClient
    /\ rq[r].usedBefore # NoClient
    /\ clients[rq[r].used].seed # Restore(rq[r].usedState)

\* the number of GraphQL error entries of a run of the error link
ErrorCount(c) == IF c.graphQLErrors = None THEN 0 ELSE Len(c.graphQLErrors[1])

\* C9: a failing mutation fires one toast per GraphQL error entry plus one
\* "Network error" toast for a transport failure, so exactly one toast for a
\* transport failure with an absent or empty error list; other operations
\* fire none.
C9_ToastCount ==
  call # None =>
    LET c == call[1]
    IN  IF c.operation = "mutation"
        THEN /\ Len(toasts) = ErrorCount(c) + (IF c.networkError THEN 1 ELSE 0)
             /\ c.networkError => toasts[Len(toasts)].message = NetworkMessage
        ELSE toasts = <<>>

\* C10: for a failing mutation, the toast of each GraphQL error entry has
\* severity ERROR and carries the generic fallback text when the server
\* message contains Variable "$, and the server message verbatim otherwise.
C10_ToastMessage ==
  (call # None /\ call[1].operation = "mutation" /\ call[1].graphQLErrors # None) =>
    LET errors == call[1].graphQLErrors[1]
    IN  /\ Len(toasts) = Len(errors)
        /\ \A i \in 1..Len(errors) :
             /\ toasts[i].type = "ERROR"
             /\ includes(errors[i], Needle) => toasts[i].message = GenericMessage
             /\ ~includes(errors[i], Needle) => toasts[i].message = errors[i]

C10_Witness ==
  /\ call # None
  /\ call[1].operation = "mutation"
  /\ call[1].graphQLErrors = Some(<<MsgTail, MsgNoQuote>>)
  /\ toasts = <<ToastMessage("ERROR", GenericMessage),
                ToastMessage("ERROR", MsgNoQuote)>>

====
